---- MODULE Spec2Model ----
(***************************************************************************)
(* Model of src-tauri/src/lib.rs: the run() entry point of the desktop     *)
(* application.  run() builds a tauri::Builder, attaches the shell, dialog *)
(* and fs plugins, registers a setup hook that looks up the webview window *)
(* labelled "main" and asks for focus, calls Builder::run and applies      *)
(* .expect(..) to its result.                                              *)
(*                                                                         *)
(* The framework is the environment of this code.  Its outcomes are        *)
(* nondeterministic choices: whether building the application succeeds,    *)
(* which windows exist when the setup hook runs and which of them has the  *)
(* input focus, whether set_focus returns Ok or Err, and which events the  *)
(* run loop processes afterwards.                                          *)
(***************************************************************************)
EXTENDS Integers, Sequences, FiniteSets, TLC

\* ------------------------------------------------------------- bounds
\* Number of windows, besides "main", that the configuration may declare.
MaxOtherWindows == 2
\* Number of events the run loop processes before the model stops it.
MaxEvents == 3

\* ---------------------------------------------------------- constants
MainLabel == "main"
ExpectMsg == "error while running tauri application"

OtherLabelNames == <<"settings", "splash", "about", "help", "log">>
OtherLabels == {OtherLabelNames[i] : i \in 1..MaxOtherWindows}
Labels == {MainLabel} \cup OtherLabels

ShellPlugin == "shell"
DialogPlugin == "dialog"
FsPlugin == "fs"
PluginOrder == <<ShellPlugin, DialogPlugin, FsPlugin>>

VARIABLES
    pc,             \* position of the process in run() / in the framework
    plugins,        \* plugins attached to the builder, in attachment order
    setupHook,      \* TRUE once .setup(..) has stored the closure
    runCalls,       \* number of calls of Builder::run
    buildResult,    \* "none" | "Ok" | "Err": outcome of building the app
    windows,        \* labels of the webview windows that exist
    focused,        \* [Labels -> BOOLEAN]: which window has input focus
    window,         \* result of get_webview_window: <<>> (None) or <<label>>
    lookups,        \* number of get_webview_window calls made by the hook
    focusRequests,  \* labels set_focus was called on, in call order
    focusResult,    \* "none" | "Ok" | "Err": what set_focus returned
    hookResult,     \* "none" | "Ok" | "Err": what the setup closure returned
    loopEntries,    \* number of times the run loop was entered
    events,         \* events processed by the run loop
    invoked,        \* plugin capabilities the front-end has called
    runResult,      \* "none" | "Ok" | "Err": what Builder::run returned
    message         \* panic message of an aborted process, "" otherwise

vars == <<pc, plugins, setupHook, runCalls, buildResult, windows, focused,
          window, lookups, focusRequests, focusResult, hookResult,
          loopEntries, events, invoked, runResult, message>>

builderVars == <<plugins, setupHook>>
frameworkVars == <<runCalls, buildResult, windows, loopEntries, events,
                   invoked, runResult, message>>
hookVars == <<window, lookups, focusRequests, focusResult, hookResult>>

\* ------------------------------------------------------------ helpers
Range(s) == {s[i] : i \in 1..Len(s)}

NoFocus == [w \in Labels |-> FALSE]

\* Builder::plugin: the plugin is added after the ones already attached.
plugin(ps, p) == Append(ps, p)

\* Manager::get_webview_window(label): Some(window) iff one has that label.
get_webview_window_any(ws, label) ==
    IF ws = {} THEN <<>> ELSE <<CHOOSE w \in ws : TRUE>>

get_webview_window(ws, label) ==
    IF label \in ws THEN <<label>> ELSE <<>>

\* WebviewWindow::set_focus taking effect: input focus is exclusive.
set_focus(f, w) == [x \in Labels |-> x = w]

\* --------------------------------------------------------------- Init
Init ==
    /\ pc = "start"
    /\ plugins = <<>>
    /\ setupHook = FALSE
    /\ runCalls = 0
    /\ buildResult = "none"
    /\ windows = {}
    /\ focused = NoFocus
    /\ window = <<>>
    /\ lookups = 0
    /\ focusRequests = <<>>
    /\ focusResult = "none"
    /\ hookResult = "none"
    /\ loopEntries = 0
    /\ events = 0
    /\ invoked = {}
    /\ runResult = "none"
    /\ message = ""

\* ------------------------------------------------------ run(): builder
\* tauri::Builder::default()
BuilderDefault ==
    /\ pc = "start"
    /\ pc' = "builder"
    /\ plugins' = <<>>
    /\ setupHook' = FALSE
    /\ UNCHANGED <<frameworkVars, hookVars, focused>>

\* .plugin(tauri_plugin_shell::init())
PluginShell ==
    /\ pc = "builder"
    /\ plugins' = plugin(plugins, ShellPlugin)
    /\ pc' = "plugin_shell"
    /\ UNCHANGED <<setupHook, frameworkVars, hookVars, focused>>

\* .plugin(tauri_plugin_dialog::init())
PluginDialogSkipped ==
    /\ pc = "plugin_shell"
    /\ pc' = "plugin_dialog"
    /\ UNCHANGED <<plugins, setupHook, frameworkVars, hookVars, focused>>

PluginDialog ==
    /\ pc = "plugin_shell"
    /\ plugins' = plugin(plugins, DialogPlugin)
    /\ pc' = "plugin_dialog"
    /\ UNCHANGED <<setupHook, frameworkVars, hookVars, focused>>

\* .plugin(tauri_plugin_fs::init())
PluginFsSkipped ==
    /\ pc = "plugin_dialog"
    /\ pc' = "plugin_fs"
    /\ UNCHANGED <<plugins, setupHook, frameworkVars, hookVars, focused>>

PluginFs ==
    /\ pc = "plugin_dialog"
    /\ plugins' = plugin(plugins, FsPlugin)
    /\ pc' = "plugin_fs"
    /\ UNCHANGED <<setupHook, frameworkVars, hookVars, focused>>

\* .setup(|app| { .. }): the closure is stored, not executed.
Setup ==
    /\ pc = "plugin_fs"
    /\ setupHook' = TRUE
    /\ pc' = "configured"
    /\ UNCHANGED <<plugins, frameworkVars, hookVars, focused>>

\* ----------------------------------------- .run(generate_context!())
\* Builder::run builds the application.  A failure is returned to the
\* caller before the setup hook is ever invoked; on success the windows
\* declared by the configuration exist and at most one of them has focus.
RunBuild ==
    /\ pc = "configured"
    /\ runCalls' = runCalls + 1
    /\ \/ /\ buildResult' = "Err"
          /\ runResult' = "Err"
          /\ pc' = "expect"
          /\ UNCHANGED <<windows, focused>>
       \/ /\ buildResult' = "Ok"
          /\ \E ws \in SUBSET Labels :
                /\ windows' = ws
                /\ \/ focused' = NoFocus
                   \/ \E w \in ws : focused' = set_focus(NoFocus, w)
          /\ pc' = IF setupHook THEN "hook" ELSE "hook_returned"
          /\ UNCHANGED runResult
    /\ UNCHANGED <<builderVars, hookVars, loopEntries, events, invoked,
                   message>>

\* ------------------------------------------------ the setup closure
\* if let Some(window) = app.get_webview_window("main")
HookLookup ==
    /\ pc = "hook"
    /\ window' = get_webview_window(windows, MainLabel)
    /\ lookups' = lookups + 1
    /\ pc' = IF window' # <<>> THEN "hook_focus" ELSE "hook_ok"
    /\ UNCHANGED <<builderVars, frameworkVars, focusRequests, focusResult,
                   hookResult, focused>>

\* let _ = window.set_focus();   the Result is discarded
HookSetFocusRetry ==
    /\ pc = "hook_focus"
    /\ focusRequests' = Append(focusRequests, window[1])
    /\ \/ /\ focusResult' = "Ok"
          /\ focused' = set_focus(focused, window[1])
          /\ pc' = "hook_ok"
       \/ /\ focusResult' = "Err"
          /\ focused' = focused
          /\ pc' = "hook_focus"
    /\ UNCHANGED <<builderVars, frameworkVars, window, lookups, hookResult>>

HookSetFocusSkipped ==
    /\ pc = "hook_focus"
    /\ pc' = "hook_ok"
    /\ UNCHANGED <<builderVars, frameworkVars, hookVars, focused>>

HookSetFocus ==
    /\ pc = "hook_focus"
    /\ focusRequests' = Append(focusRequests, window[1])
    /\ \/ /\ focusResult' = "Ok"
          /\ focused' = set_focus(focused, window[1])
       \/ /\ focusResult' = "Err"
          /\ focused' = focused
    /\ pc' = "hook_ok"
    /\ UNCHANGED <<builderVars, frameworkVars, window, lookups, hookResult>>

\* Ok(())
HookReturnPropagate ==
    /\ pc = "hook_ok"
    /\ hookResult' = IF focusResult = "Err" THEN "Err" ELSE "Ok"
    /\ pc' = "hook_returned"
    /\ UNCHANGED <<builderVars, frameworkVars, window, lookups,
                   focusRequests, focusResult, focused>>

HookReturnRequireWindow ==
    /\ pc = "hook_ok"
    /\ hookResult' = IF window = <<>> THEN "Err" ELSE "Ok"
    /\ pc' = "hook_returned"
    /\ UNCHANGED <<builderVars, frameworkVars, window, lookups,
                   focusRequests, focusResult, focused>>

HookReturn ==
    /\ pc = "hook_ok"
    /\ hookResult' = "Ok"
    /\ pc' = "hook_returned"
    /\ UNCHANGED <<builderVars, frameworkVars, window, lookups,
                   focusRequests, focusResult, focused>>

\* --------------------------------------------- framework, after setup
\* The framework acts on the closure's result: an Err ends the process,
\* an Ok lets the run loop start.
AfterSetup ==
    /\ pc = "hook_returned"
    /\ IF hookResult = "Err"
          THEN /\ pc' = "aborted"
               /\ message' = "Failed to setup app"
               /\ UNCHANGED loopEntries
          ELSE /\ pc' = "loop"
               /\ loopEntries' = loopEntries + 1
               /\ UNCHANGED message
    /\ UNCHANGED <<builderVars, hookVars, focused, runCalls, buildResult,
                   windows, events, invoked, runResult>>

\* The front-end calls a capability of an attached plugin.
Invoke(cap) ==
    /\ pc = "loop"
    /\ events < MaxEvents
    /\ cap \in Range(plugins)
    /\ invoked' = invoked \cup {cap}
    /\ events' = events + 1
    /\ UNCHANGED <<pc, builderVars, hookVars, focused, runCalls, buildResult,
                   windows, loopEntries, runResult, message>>

\* The user moves the input focus to another window of the application.
UserFocus(w) ==
    /\ pc = "loop"
    /\ events < MaxEvents
    /\ w \in windows
    /\ focused' = set_focus(focused, w)
    /\ events' = events + 1
    /\ UNCHANGED <<pc, builderVars, hookVars, runCalls, buildResult,
                   windows, loopEntries, invoked, runResult, message>>

\* The run loop ends and Builder::run returns Ok(()).
LoopExit ==
    /\ pc = "loop"
    /\ runResult' = "Ok"
    /\ pc' = "expect"
    /\ UNCHANGED <<builderVars, hookVars, focused, runCalls, buildResult,
                   windows, loopEntries, events, invoked, message>>

\* .expect("error while running tauri application")
ExpectRetry ==
    /\ pc = "expect"
    /\ IF runResult = "Err"
          THEN /\ pc' = "configured"
               /\ UNCHANGED message
          ELSE /\ pc' = "returned"
               /\ UNCHANGED message
    /\ runCalls < 2
    /\ UNCHANGED <<builderVars, hookVars, focused, runCalls, buildResult,
                   windows, loopEntries, events, invoked, runResult>>

Expect ==
    /\ pc = "expect"
    /\ IF runResult = "Err"
          THEN /\ pc' = "aborted"
               /\ message' = ExpectMsg
          ELSE /\ pc' = "returned"
               /\ UNCHANGED message
    /\ UNCHANGED <<builderVars, hookVars, focused, runCalls, buildResult,
                   windows, loopEntries, events, invoked, runResult>>

Next ==
    \/ BuilderDefault
    \/ PluginShell
    \/ PluginDialog
    \/ PluginFs
    \/ Setup
    \/ RunBuild
    \/ HookLookup
    \/ HookSetFocus
    \/ HookReturn
    \/ AfterSetup
    \/ \E cap \in Range(PluginOrder) : Invoke(cap)
    \/ \E w \in Labels : UserFocus(w)
    \/ LoopExit
    \/ Expect

Spec == Init /\ [][Next]_vars

\* ======================================================== properties
\* Positions at which the next step is a step of the setup closure.
HookPcs == {"hook", "hook_focus", "hook_ok"}
IsPrefix(s, t) == Len(s) <= Len(t) /\ s = SubSeq(t, 1, Len(s))
HookStarted ==
    \/ pc \in HookPcs
    \/ lookups > 0
    \/ focusRequests # <<>>
    \/ hookResult # "none"

\* C1: run() performs its startup steps in a fixed order: the builder is
\* constructed, then shell, dialog and fs are attached in that order, then
\* the setup hook is registered, and only then is Builder::run called; the
\* body of the setup hook never executes before all three plugins are
\* attached nor before run has been called.
C1_StartupOrder ==
    /\ IsPrefix(plugins, PluginOrder)
    /\ (pc = "start" => plugins = <<>> /\ ~setupHook)
    /\ (setupHook => plugins = PluginOrder)
    /\ (runCalls > 0 => setupHook)
    /\ (HookStarted => plugins = PluginOrder /\ setupHook /\ runCalls > 0)
    /\ (loopEntries > 0 => runCalls > 0)

C1_Witness ==
    /\ pc = "hook_focus"
    /\ lookups = 1
    /\ plugins = PluginOrder
    /\ runCalls = 1

\* C2 (as claimed): whenever the lookup of "main" succeeded, the main window
\* is focused by the time the setup hook has returned.
C2_Original ==
    (pc = "hook_returned" /\ window # <<>>) => focused[MainLabel]

\* C2 (amended): whenever the lookup of "main" succeeded, exactly one focus
\* request, for "main", has been issued by the time the setup hook has
\* returned, and the main window is focused at that point if that request
\* succeeded.
C2_FocusRequested ==
    (pc = "hook_returned" /\ window # <<>>) =>
        /\ window = <<MainLabel>>
        /\ focusRequests = <<MainLabel>>
        /\ focusResult \in {"Ok", "Err"}
        /\ (focusResult = "Ok" => focused[MainLabel])

C2_Witness ==
    /\ pc = "hook_returned"
    /\ window = <<MainLabel>>
    /\ focusResult = "Ok"
    /\ focused[MainLabel]
    /\ OtherLabels \cap windows # {}

\* C3: if no window named "main" exists when the setup hook runs, the hook
\* returns Ok, no focus request is issued to any window, and the process
\* does not abort.
C3_MissingWindowTolerated ==
    (hookResult # "none" /\ MainLabel \notin windows) =>
        /\ hookResult = "Ok"
        /\ window = <<>>
        /\ focusRequests = <<>>
        /\ focusResult = "none"
        /\ pc # "aborted"
        /\ message = ""

C3_Witness ==
    /\ pc = "loop"
    /\ MainLabel \notin windows
    /\ windows # {}
    /\ hookResult = "Ok"
    /\ lookups = 1

\* C4: if Builder::run returns an error the process aborts immediately with
\* the message "error while running tauri application": the step after the
\* error is the abort, the run loop is never entered and run is not called
\* a second time.
C4_FailFast ==
    /\ [](runResult = "Err" =>
            /\ pc \in {"expect", "aborted"}
            /\ loopEntries = 0
            /\ runCalls = 1
            /\ (pc = "aborted" => message = ExpectMsg))
    /\ [][(pc = "expect" /\ runResult = "Err") =>
            /\ pc' = "aborted"
            /\ message' = ExpectMsg
            /\ loopEntries' = 0
            /\ runCalls' = 1]_vars
    /\ [][pc = "aborted" => UNCHANGED vars]_vars

C4_Witness ==
    /\ pc = "aborted"
    /\ runResult = "Err"
    /\ message = ExpectMsg
    /\ loopEntries = 0

\* C5: in every state in which the run loop is active the registered plugins
\* are exactly shell, dialog and fs.
C5_AllPluginsInLoop ==
    pc = "loop" =>
        /\ Range(plugins) = {ShellPlugin, DialogPlugin, FsPlugin}
        /\ Len(plugins) = 3
        /\ invoked \subseteq Range(plugins)

C5_Witness ==
    /\ pc = "loop"
    /\ invoked = {ShellPlugin, DialogPlugin, FsPlugin}

\* C6: whenever the framework's own initialisation and run succeed, run()
\* never reaches the abort state, whether or not "main" exists and whether
\* or not the focus request succeeds.
C6_NoAbortWhenFrameworkOk ==
    buildResult = "Ok" => (pc # "aborted" /\ runResult # "Err" /\ message = "")

C6_Witness ==
    /\ pc = "returned"
    /\ buildResult = "Ok"
    /\ MainLabel \in windows
    /\ focusResult = "Err"
    /\ ~focused[MainLabel]

\* C7: when set_focus on "main" returns an error the setup hook still
\* returns Ok, the error does not reach run, and startup proceeds as it
\* does when the request succeeds: the run loop is entered next.
C7_FocusFailureSwallowed ==
    /\ []((focusResult = "Err" /\ hookResult # "none") =>
            /\ hookResult = "Ok"
            /\ pc # "aborted"
            /\ runResult # "Err"
            /\ message = "")
    /\ [][pc = "hook_returned" =>
            /\ pc' = "loop"
            /\ loopEntries' = 1
            /\ message' = ""]_vars

C7_Witness ==
    /\ pc = "loop"
    /\ focusResult = "Err"
    /\ hookResult = "Ok"
    /\ loopEntries = 1

\* C8: the abort state is reachable only through an error returned by
\* Builder::run; the setup hook returns Ok on every path and is never the
\* cause of an abort.
C8_SingleFailurePath ==
    /\ hookResult \in {"none", "Ok"}
    /\ (pc \in {"hook_returned", "loop"} /\ setupHook => hookResult = "Ok")
    /\ (pc = "aborted" =>
            /\ runResult = "Err"
            /\ buildResult = "Err"
            /\ message = ExpectMsg
            /\ hookResult = "none")

C8_Witness ==
    /\ pc = "aborted"
    /\ buildResult = "Err"
    /\ hookResult = "none"
    /\ lookups = 0

\* C9: the main window is looked up once and focus is requested at most
\* once per execution; after the setup hook has returned no further lookup
\* or focus request is made, even if the window was absent or the request
\* failed.
C9_LookupOnceNoRetry ==
    /\ [](/\ lookups <= 1
          /\ Len(focusRequests) <= 1
          /\ Len(focusRequests) <= lookups
          /\ (hookResult # "none" => lookups = 1))
    /\ [][hookResult # "none" =>
            /\ lookups' = lookups
            /\ focusRequests' = focusRequests
            /\ window' = window
            /\ hookResult' = hookResult]_vars

C9_Witness ==
    /\ pc = "returned"
    /\ events > 0
    /\ lookups = 1
    /\ focusRequests = <<MainLabel>>
    /\ focusResult = "Err"

\* C10 (as claimed): a step of the setup hook leaves the focus state of every
\* window other than "main", and the set of registered plugins, unchanged.
C10_Original ==
    [][(pc \in HookPcs) =>
        (/\ \A w \in Labels \ {MainLabel} : focused'[w] = focused[w]
         /\ plugins' = plugins)]_vars

\* C10 (amended): the setup hook requests focus for no window other than
\* "main"; during the hook no other window gains focus, and one loses it
\* only to "main" when the focus request takes effect; the set of windows
\* and the set of registered plugins are left unchanged by the hook.
C10_OnlyMainTargeted ==
    /\ [](Range(focusRequests) \subseteq {MainLabel})
    /\ [][(pc \in HookPcs) =>
            /\ \A w \in Labels \ {MainLabel} :
                  /\ focused'[w] => focused[w]
                  /\ (focused[w] /\ ~focused'[w]) =>
                        (focused'[MainLabel] /\ focusResult' = "Ok")
            /\ windows' = windows
            /\ plugins' = plugins
            /\ setupHook' = setupHook]_vars

C10_Witness ==
    /\ pc = "hook_ok"
    /\ focusRequests = <<MainLabel>>
    /\ focusResult = "Ok"
    /\ focused = set_focus(NoFocus, MainLabel)
    /\ Cardinality(windows) >= 2

====
